---- MODULE Spec2Model ----
(***************************************************************************)
(* A model of yogger (src/yogger/base.py): the recursive value formatter   *)
(* pformat, the stack walker _stack_dumps with its package filter, the     *)
(* dump writer _dump, the dump_on_exception context manager, the Yogger    *)
(* logger methods and configure.                                           *)
(*                                                                         *)
(* Text is a sequence of tokens.  A token is a string; the newline NL and  *)
(* the space SP are tokens of their own, the characters of a Python str or *)
(* bytes value are one token each, and the literal pieces of the format    *)
(* strings that hold neither a newline nor a space are one token each.     *)
(***************************************************************************)
EXTENDS Integers, Sequences, FiniteSets, TLC

NL == "\n"
SP == " "
BSL == "\\"
SQ == "'"
DQ == "\""

(* ------------------------------- state --------------------------------- *)

VARIABLES
    _global_package_name,   \* None or Some(characters of the package name)
    _global_dump_path,      \* None or Some(path argument holding the resolved path)
    _global_dump_locals,    \* BOOLEAN
    root_level,             \* level of the root logger
    root_handlers,          \* handlers of the root logger, in list order
    requests_level,         \* level of logging.getLogger("requests")
    urllib3_level,          \* level of logging.getLogger("urllib3")
    fs,                     \* the files written so far
    tmp_count,              \* temporary files created so far
    cm_stack,               \* dump_path arguments of the dump_on_exception blocks entered
    exc,                    \* the exception propagating, None when none is
    last,                   \* the most recent library call and what it did
    n_dumps,                \* dumps attempted that reached a file
    arg,                    \* the inputs of a call under study
    pf_first                \* the first pformat call made: its input, its result
                            \* and the configuration it ran under

vars == <<_global_package_name, _global_dump_path, _global_dump_locals, root_level,
          root_handlers, requests_level, urllib3_level, fs, tmp_count, n_dumps,
          cm_stack, exc, last, arg, pf_first>>

config_vars == <<_global_package_name, _global_dump_path, _global_dump_locals>>
logging_vars == <<root_level, root_handlers, requests_level, urllib3_level>>
file_vars == <<fs, tmp_count, n_dumps>>
block_vars == <<cm_stack, exc>>

(* ---------------------------- bounds ----------------------------------- *)
\* elements of a container, entries of a dict, fields of a dataclass
MaxLen == 2
\* frames of a stack under study
MaxStack == 3
\* dumps written in one run
MaxDumps == 2
\* dump_on_exception blocks open at once
MaxNest == 2
\* handlers on the root logger
MaxHandlers == 3

(* ------------------------- text primitives ----------------------------- *)

\* str.join(sep, parts)
RECURSIVE Join(_, _)
Join(sep, parts) ==
    IF parts = <<>> THEN <<>>
    ELSE IF Len(parts) = 1 THEN parts[1]
    ELSE parts[1] \o sep \o Join(sep, Tail(parts))

\* str.replace(old, new) for a one-character old (the text is split in halves
\* to keep the evaluation shallow; the result is that of a left-to-right scan)
RECURSIVE StrReplace(_, _, _)
StrReplace(text, old, new) ==
    IF text = <<>> THEN <<>>
    ELSE IF Len(text) = 1 THEN (IF text[1] = old THEN new ELSE text)
    ELSE LET half == Len(text) \div 2
         IN  StrReplace(SubSeq(text, 1, half), old, new)
             \o StrReplace(SubSeq(text, half + 1, Len(text)), old, new)

\* '"\n" in text'
Contains(text, tok) == \E i \in 1..Len(text) : text[i] = tok

\* str.startswith(prefix)
StartsWith(text, prefix) ==
    /\ Len(prefix) <= Len(text)
    /\ SubSeq(text, 1, Len(prefix)) = prefix

(* ------------------------- Python values ------------------------------- *)
(* A value is a record [t, n, s, keys, items]:                             *)
(*   t      its class: "int", "bool", "str", "bytes", "NoneType", "obj",   *)
(*          "list", "tuple", "set", "deque", "dict", "OrderedDict",        *)
(*          "dataclass";                                                   *)
(*   n      the number of an int or bool;                                  *)
(*   s      the characters of a str or bytes, or the text the __repr__ of  *)
(*          an "obj" (any other object) returns;                           *)
(*   keys   the keys of a dict, or the field names of a dataclass (str     *)
(*          values), in iteration / declaration order;                     *)
(*   items  the elements of a container in iteration order, or the values  *)
(*          of a dict or of the fields of a dataclass.                     *)

Val(t, n, s, keys, items) ==
    [t |-> t, n |-> n, s |-> s, keys |-> keys, items |-> items]

PyInt(n) == Val("int", n, <<>>, <<>>, <<>>)
PyBool(n) == Val("bool", n, <<>>, <<>>, <<>>)
PyStr(s) == Val("str", 0, s, <<>>, <<>>)
PyBytes(s) == Val("bytes", 0, s, <<>>, <<>>)
PyNone == Val("NoneType", 0, <<>>, <<>>, <<>>)
PyObj(repr_text) == Val("obj", 0, repr_text, <<>>, <<>>)
PyCont(t, items) == Val(t, 0, <<>>, <<>>, items)
PyDict(t, keys, items) == Val(t, 0, <<>>, keys, items)
PyDataclass(fields, items) == Val("dataclass", 0, <<>>, fields, items)

ContainerTypes == {"list", "tuple", "set", "deque"}
DictTypes == {"dict", "OrderedDict"}

\* isinstance(v, (int, str)): bool is a subclass of int
IsIntOrStr(v) == v.t \in {"int", "bool", "str"}
\* isinstance(v, dict): subclasses of dict included
IsDict(v) == v.t \in DictTypes
\* isinstance(v, (list, tuple, set, collections.deque))
IsContainer(v) == v.t \in ContainerTypes
\* dataclasses.is_dataclass(v)
IsDataclass(v) == v.t = "dataclass"

\* type(v).__module__
TypeModule(v) ==
    CASE v.t \in {"deque", "OrderedDict"} -> "collections"
      [] v.t \in {"dataclass", "obj"} -> "__main__"
      [] OTHER -> "builtins"

\* type(v).__name__
TypeName(v) ==
    CASE v.t = "dataclass" -> "Point"
      [] v.t = "obj" -> "Obj"
      [] OTHER -> v.t

(* ------------------------------ repr ----------------------------------- *)

\* The quote repr() picks for a str or bytes: double quotes only when the
\* text holds a single quote and no double quote.
ReprQuote(s) == IF Contains(s, SQ) /\ ~Contains(s, DQ) THEN DQ ELSE SQ

\* One character of a str or bytes as repr() writes it inside quote q.
ReprChar(c, q) ==
    CASE c = NL -> <<BSL, "n">>
      [] c = BSL -> <<BSL, BSL>>
      [] c = q -> <<BSL, q>>
      [] OTHER -> <<c>>

RECURSIVE ReprChars(_, _)
ReprChars(s, q) ==
    IF s = <<>> THEN <<>> ELSE ReprChar(Head(s), q) \o ReprChars(Tail(s), q)

\* repr() of a str
StrRepr(s) == LET q == ReprQuote(s) IN <<q>> \o ReprChars(s, q) \o <<q>>

\* repr() of any value: f"{value!r}"
RECURSIVE Repr(_)
Repr(v) ==
    LET elems == Join(<<",", SP>>, [i \in 1..Len(v.items) |-> Repr(v.items[i])])
        pairs == Join(<<",", SP>>,
                      [i \in 1..Len(v.items) |->
                          Repr(v.keys[i]) \o <<":", SP>> \o Repr(v.items[i])])
        fields == Join(<<",", SP>>,
                       [i \in 1..Len(v.items) |->
                           v.keys[i].s \o <<"=">> \o Repr(v.items[i])])
    IN  CASE v.t = "int" -> <<ToString(v.n)>>
          [] v.t = "bool" -> IF v.n = 0 THEN <<"False">> ELSE <<"True">>
          [] v.t = "str" -> StrRepr(v.s)
          [] v.t = "bytes" -> <<"b">> \o StrRepr(v.s)
          [] v.t = "NoneType" -> <<"None">>
          [] v.t = "obj" -> v.s
          [] v.t = "list" -> <<"[">> \o elems \o <<"]">>
          [] v.t = "tuple" ->
                IF Len(v.items) = 1 THEN <<"(">> \o elems \o <<",", ")">>
                ELSE <<"(">> \o elems \o <<")">>
          [] v.t = "set" ->
                IF v.items = <<>> THEN <<"set()">>
                ELSE <<"{">> \o elems \o <<"}">>
          [] v.t = "deque" -> <<"deque(", "[">> \o elems \o <<"]", ")">>
          [] v.t = "dict" -> <<"{">> \o pairs \o <<"}">>
          [] v.t = "OrderedDict" -> <<"OrderedDict(", "{">> \o pairs \o <<"}", ")">>
          [] OTHER -> <<TypeName(v), "(">> \o fields \o <<")">>

(* ----------------------------- pformat --------------------------------- *)

\* base.py _apply_line_continuation as a working line continuation would
\* be: the continued text is returned.
ApplyLineContinuationReturned(obj_repr) ==
    IF Contains(obj_repr, NL)
    THEN <<BSL, NL, SP, SP>> \o StrReplace(obj_repr, NL, <<NL, SP, SP>>)
    ELSE obj_repr

\* The continued text of line 95 is an expression statement: it is computed
\* and dropped, and line 97 returns the argument.
_apply_line_continuation(obj_repr) ==
    LET continued == <<BSL, NL, SP, SP>> \o StrReplace(obj_repr, NL, <<NL, SP, SP>>)
    IN  obj_repr

\* A header that leaves the module out once a package is configured
TypeHeaderInPackage(name, value) ==
    name \o <<SP, "=", SP, "<">>
    \o (IF _global_package_name.some THEN <<>> ELSE <<TypeModule(value), ".">>)
    \o <<TypeName(value), ">", NL, SP, SP>>

\* f"{name} = <{type(value).__module__}.{type(value).__name__}>\n  "
TypeHeader(name, value) ==
    name \o <<SP, "=", SP, "<", TypeModule(value), ".", TypeName(value), ">", NL, SP, SP>>

RECURSIVE pformat(_, _)

_dict_repr(name, value) ==
    TypeHeader(name, value)
    \o Join(<<NL, SP, SP>>,
            [i \in 1..Len(value.items) |->
                StrReplace(pformat(name \o <<"[">> \o Repr(value.keys[i]) \o <<"]">>,
                                   value.items[i]),
                           NL, <<NL, SP, SP>>)])

\* A container text whose entries count from 1
ObjectContainerReprOneBased(name, value) ==
    IF \A i \in 1..Len(value.items) : IsIntOrStr(value.items[i])
    THEN name \o <<SP, "=", SP>> \o Repr(value)
    ELSE TypeHeader(name, value)
         \o Join(<<NL, SP, SP>>,
                 [i \in 1..Len(value.items) |->
                     StrReplace(pformat(name \o <<"[", ToString(i), "]">>, value.items[i]),
                                NL, <<NL, SP, SP>>)])

_object_container_repr(name, value) ==
    LET cont_repr ==
            IF \A i \in 1..Len(value.items) : IsIntOrStr(value.items[i])
            THEN name \o <<SP, "=", SP>> \o Repr(value)
            ELSE TypeHeader(name, value)
                 \o Join(<<NL, SP, SP>>,
                         [i \in 1..Len(value.items) |->
                             StrReplace(pformat(name \o <<"[", ToString(i - 1), "]">>,
                                                value.items[i]),
                                        NL, <<NL, SP, SP>>)])
    IN  _apply_line_continuation(cont_repr)

_dataclass_repr(name, value) ==
    TypeHeader(name, value)
    \o Join(<<NL, SP, SP>>,
            [i \in 1..Len(value.items) |->
                LET fname == name \o <<".">> \o value.keys[i].s
                IN  pformat(fname, value.keys[i])
                    \o <<SP, "=", SP>>
                    \o StrReplace(pformat(fname, value.items[i]), NL, <<NL, SP, SP>>)])

pformat(name, value) ==
    IF IsDict(value) THEN _dict_repr(name, value)
    ELSE IF IsContainer(value) THEN _object_container_repr(name, value)
    ELSE IF IsDataclass(value) THEN _dataclass_repr(name, value)
    ELSE _apply_line_continuation(name \o <<SP, "=", SP>> \o Repr(value))

(* --------------------------- optional values --------------------------- *)
\* Python's None against a present value v
None == [some |-> FALSE, v |-> <<>>]
Some(v) == [some |-> TRUE, v |-> v]

(* --------------------------- stack frames ------------------------------ *)
(* A frame record (inspect.FrameInfo) is                                   *)
(*   module    inspect.getmodule(frame): None, or Some(the characters of   *)
(*             the module's __name__);                                     *)
(*   filename, lineno, function   as in FrameInfo;                         *)
(*   names, values   the frame's f_locals in iteration order.              *)

FrameInfo(module, lineno, function, names, values) ==
    [module |-> module, filename |-> "app.py", lineno |-> lineno,
     function |-> function, names |-> names, values |-> values]

\* hasattr(v, "__dict__"): instances of ordinary classes and of dataclasses
HasDict(v) == v.t \in {"obj", "dataclass"} /\ v.n = 0

\* v.__dict__, for a value that has one
ObjectDict(v) == PyDict("dict", v.keys, v.items)

\* str(type(v)): "<class 'int'>", "<class 'collections.deque'>"
TypeStr(v) ==
    <<"<class", SP, SQ>>
    \o (IF TypeModule(v) = "builtins" THEN <<>> ELSE <<TypeModule(v), ".">>)
    \o <<TypeName(v), SQ, ">">>

\* The index of the local called "self", 0 when there is none
SelfIndex(frame_record) ==
    IF \E i \in 1..Len(frame_record.names) : frame_record.names[i] = <<"self">>
    THEN CHOOSE i \in 1..Len(frame_record.names) : frame_record.names[i] = <<"self">>
    ELSE 0

\* A package test by bare string prefix, without the dot boundary.
InPackageBarePrefix(module_name, package_name) ==
    StartsWith(module_name, package_name)

\* module.__name__.startswith(f"{package_name}.") or module.__name__ == package_name
InPackage(module_name, package_name) ==
    \/ StartsWith(module_name, package_name \o <<".">>)
    \/ module_name = package_name

\* A section that stops after the locals: no Object dict block
FrameSectionNoObjectDict(frame_record) ==
    <<"Locals", SP, "from", SP, "file", SP, DQ, frame_record.filename, DQ, ",",
      SP, "line", SP, ToString(frame_record.lineno), ",", SP, "in", SP,
      frame_record.function, ":", NL>>
    \o Join(<<>>,
            [i \in 1..Len(frame_record.names) |->
                <<SP, SP>> \o frame_record.names[i] \o <<SP>>
                \o TypeStr(frame_record.values[i]) \o <<SP, "=", SP>>
                \o StrReplace(pformat(frame_record.names[i], frame_record.values[i]),
                              NL, <<NL, SP, SP>>)
                \o <<NL>>])
    \o <<NL>>

\* The section of one included frame (lines 324-336)
FrameSection(frame_record) ==
    LET self == SelfIndex(frame_record)
    IN  <<"Locals", SP, "from", SP, "file", SP, DQ, frame_record.filename, DQ, ",",
          SP, "line", SP, ToString(frame_record.lineno), ",", SP, "in", SP,
          frame_record.function, ":", NL>>
        \o Join(<<>>,
                [i \in 1..Len(frame_record.names) |->
                    <<SP, SP>> \o frame_record.names[i] \o <<SP>>
                    \o TypeStr(frame_record.values[i]) \o <<SP, "=", SP>>
                    \o StrReplace(pformat(frame_record.names[i], frame_record.values[i]),
                                  NL, <<NL, SP, SP>>)
                    \o <<NL>>])
        \o <<NL>>
        \o (IF self # 0 /\ HasDict(frame_record.values[self])
            THEN <<"Object", SP, "dict:", NL>>
                 \o Repr(ObjectDict(frame_record.values[self]))
                 \o <<NL, NL>>
            ELSE <<>>)

\* An attribution to the outermost frame that has a module, not the nearest
PreviousModuleOutermost(modules, j) ==
    IF \E k \in 1..j : modules[k].some
    THEN modules[CHOOSE k \in 1..j :
                     modules[k].some /\ \A m \in 1..(k - 1) : ~modules[m].some]
    ELSE None

\* The module a frame is attributed to (lines 311-320): its own, or for a
\* module-less frame that of the nearest earlier frame that has one; None
\* when no earlier frame has a module (the for-else of line 316).
RECURSIVE PreviousModule(_, _)
PreviousModule(modules, j) ==
    IF j = 0 THEN None
    ELSE IF modules[j].some THEN modules[j]
    ELSE PreviousModule(modules, j - 1)

\* The loop of _stack_dumps over frames i..Len(stack)
RECURSIVE StackDumpsFrom(_, _, _, _)
StackDumpsFrom(stack, modules, package_name, i) ==
    IF i > Len(stack) THEN <<>>
    ELSE LET module == IF modules[i].some THEN modules[i]
                       ELSE PreviousModule(modules, i - 1)
             section ==
                 IF ~module.some THEN <<>>
                 ELSE IF ~package_name.some \/ InPackage(module.v, package_name.v)
                      THEN FrameSection(stack[i])
                      ELSE <<>>
         IN  section \o StackDumpsFrom(stack, modules, package_name, i + 1)

_stack_dumps(stack, package_name) ==
    LET modules == [i \in 1..Len(stack) |-> stack[i].module]
    IN  StackDumpsFrom(stack, modules, package_name, 1)

\* dumps(stack)
dumps(stack) == _stack_dumps(stack, None)

(* ----------------------------- exceptions ------------------------------ *)
(* An exception object is [cls, is_exception, args, id]: its class, whether *)
(* the class derives from Exception (KeyboardInterrupt does not), its args  *)
(* and the identity of the object.                                          *)

Exc(cls, is_exception, args, id) ==
    [cls |-> cls, is_exception |-> is_exception, args |-> args, id |-> id]

\* str(v): the characters of a str, the repr of anything else
Str(v) == IF v.t = "str" THEN v.s ELSE Repr(v)

\* BaseException.__str__
ExcStr(e) ==
    IF e.args = <<>> THEN <<>>
    ELSE IF Len(e.args) = 1 THEN Str(e.args[1])
    ELSE Repr(PyCont("tuple", e.args))

\* What a call gives back: it returns `value`, or raises `exc`.
Returned(value) == [raised |-> FALSE, exc |-> Exc("", TRUE, <<>>, 0), value |-> value]
Raised(e) == [raised |-> TRUE, exc |-> e, value |-> <<>>]

\* The exceptions the library's own calls raise, identity 0
AttributeError == Exc("AttributeError", TRUE, <<PyStr(<<"args">>)>>, 0)
PermissionError == Exc("PermissionError", TRUE, <<PyInt(13)>>, 0)

\* _exception_dumps(e): for e = None line 290 reads None.args and raises
\* AttributeError.
_exception_dumps(e) ==
    IF ~e.some THEN Raised(AttributeError)
    ELSE Returned(<<"Exception:", NL, SP, SP, "builtins", ".", e.v.cls, ":", SP>>
                  \o ExcStr(e.v)
                  \o <<NL, SP, SP, "args:", SP>> \o Repr(PyCont("tuple", e.v.args))
                  \o <<NL, NL>>)

(* -------------------------------- paths -------------------------------- *)
(* A path argument is [kind, p]: a str, a bytes or an os.PathLike object    *)
(* ("str", "bytes", "pathlike") with the characters p.                      *)

PathArg(kind, p) == [kind |-> kind, p |-> p]
CwdPath == <<"/", "cwd">>
HomePath == <<"/", "home">>

\* bool(path) of an optional path argument: None, "" and b"" are false
Truthy(path) == path.some /\ (path.v.kind = "pathlike" \/ path.v.p # <<>>)

\* _resolve_path(path): decode / __fspath__, expanduser, abspath
_resolve_path(path) ==
    LET expanded == IF path.p # <<>> /\ path.p[1] = "~"
                    THEN HomePath \o Tail(path.p) ELSE path.p
    IN  IF expanded # <<>> /\ expanded[1] = "/" THEN expanded
        ELSE IF expanded = <<>> THEN CwdPath
        ELSE CwdPath \o <<"/">> \o expanded

\* The paths open() refuses (a read-only location)
Unwritable == {<<"/", "ro">>}

(* ------------------------------ the files ------------------------------ *)
(* The file system is a sequence of files [name, content, temp] in creation *)
(* order; temp marks a file made by tempfile.NamedTemporaryFile.            *)

FileIndex(files, name) ==
    IF \E i \in 1..Len(files) : files[i].name = name
    THEN CHOOSE i \in 1..Len(files) : files[i].name = name
    ELSE 0

\* A write that opens the file with mode "w": what was there is lost
WriteFileTruncating(files, name, text) ==
    IF \E i \in 1..Len(files) : files[i].name = name
    THEN [files EXCEPT ![CHOOSE i \in 1..Len(files) : files[i].name = name].content = text]
    ELSE Append(files, [name |-> name, content |-> text, temp |-> FALSE])

\* open(name, mode="a").write(text): create if missing, write at the end
AppendFile(files, name, text) ==
    LET i == FileIndex(files, name)
    IN  IF i = 0 THEN Append(files, [name |-> name, content |-> text, temp |-> FALSE])
        ELSE [files EXCEPT ![i].content = @ \o text]

\* The name NamedTemporaryFile gives its k-th file
TempName(prefix, k) == <<"/", "tmp", "/">> \o prefix \o <<"#", ToString(k)>>

(* --------------------------- what happened ----------------------------- *)
(* An event of an operation: a record handed to the base logger ("log",     *)
(* with its level and message) or a write to a file ("write", with the      *)
(* file's name and the text written).                                       *)

LogEvent(level, text) == [kind |-> "log", level |-> level, path |-> <<>>, text |-> text]
WriteEvent(path, text) == [kind |-> "write", level |-> 0, path |-> path, text |-> text]

IsWrite(event) == event.kind = "write"

\* _DUMP_MSG.format(name=name), not on win32
DumpMsg(name) ==
    <<NL, NL, "\\33[1m", "Dumped", SP, "stack", SP, "and", SP, "locals", SP, "to", SP, DQ>>
    \o name
    \o <<DQ, "\\33[0m", NL, "Copy", SP, "and", SP, "paste", SP, "the", SP, "following",
         SP, "to", SP, "view:", NL, NL, SP, SP, SP, SP, "cat", SP, SQ>>
    \o name \o <<SQ, NL>>

\* logging's level numbers
NOTSET == 0
DEBUG == 10
INFO == 20
WARNING == 30
ERROR == 40
CRITICAL == 50

\* What a library call did: the call (op, level, the caller's frame count
\* or the trace's record count), the exception it caught, whether it
\* returned or raised and what, the text it returned, and its log records
\* and file writes in the order they happened.
Outcome(op, level, nframes, caught, status, raised, value, events) ==
    [op |-> op, level |-> level, nframes |-> nframes, caught |-> caught,
     status |-> status, exc |-> raised, value |-> value, events |-> events]

NoArg == [name |-> <<>>, value |-> PyNone, stack |-> <<>>]

\* The module as imported, nothing configured, no call made
Unconfigured ==
    /\ _global_package_name = None
    /\ _global_dump_path = None
    /\ _global_dump_locals = FALSE
    /\ root_level = WARNING
    /\ root_handlers = <<>>
    /\ requests_level = NOTSET
    /\ urllib3_level = NOTSET
    /\ fs = <<>>
    /\ tmp_count = 0
    /\ n_dumps = 0
    /\ cm_stack = <<>>
    /\ exc = None
    /\ last = Outcome("init", 0, 0, None, "return", None, <<>>, <<>>)
    /\ pf_first = None

Init == Unconfigured /\ arg = NoArg

(* ------------------------------- _dump ---------------------------------- *)

\* The result of _dump: raised or not, the name returned, the files and
\* the temporary-file count afterwards, and the writes made.
DumpResult(raised, e, name, files, tmp, events) ==
    [raised |-> raised, exc |-> e, name |-> name, files |-> files, tmp |-> tmp,
     events |-> events]

\* The name prefix of a temporary dump file (line 392)
TempPrefix ==
    IF _global_package_name.some
    THEN _global_package_name.v \o <<"_stack_and_locals">>
    ELSE <<"stack_and_locals">>

\* Lines 384-386: open(resolved, "a"), write, return wf.name
WriteUserPath(dump_repr, resolved) ==
    IF resolved \in Unwritable
    THEN DumpResult(TRUE, PermissionError, <<>>, fs, tmp_count, <<>>)
    ELSE DumpResult(FALSE, PermissionError, resolved, AppendFile(fs, resolved, dump_repr),
                    tmp_count, <<WriteEvent(resolved, dump_repr)>>)

\* Lines 389-396: a new NamedTemporaryFile(delete=False), write, return wf.name
WriteTemp(dump_repr, tname) ==
    DumpResult(FALSE, PermissionError, tname,
               Append(fs, [name |-> tname, content |-> dump_repr, temp |-> TRUE]),
               tmp_count + 1, <<WriteEvent(tname, dump_repr)>>)

\* A dump text with the exception summary ahead of the frame sections
DumpReprSummaryFirst(stack_repr, e_repr) == e_repr \o <<NL>> \o stack_repr

\* Line 380: the frame sections, an empty line, the exception summary
DumpRepr(stack_repr, e_repr) == stack_repr \o <<NL>> \o e_repr

\* A choice of path that ignores the dump_path argument
UserDumpPathGlobalOnly(dump_path) == _global_dump_path

\* Line 381: dump_path or _global_dump_path
UserDumpPath(dump_path) == IF Truthy(dump_path) THEN dump_path ELSE _global_dump_path

\* Lines 382-396 for the text dump_repr
WriteDump(dump_repr, user_dump_path) ==
    IF user_dump_path.some
    THEN WriteUserPath(dump_repr, _resolve_path(user_dump_path.v))
    ELSE WriteTemp(dump_repr, TempName(TempPrefix, tmp_count + 1))

\* _dump once its two texts are computed
DumpTexts(stack_repr, e_repr, dump_path) ==
    IF e_repr.raised
    THEN DumpResult(TRUE, e_repr.exc, <<>>, fs, tmp_count, <<>>)
    ELSE WriteDump(DumpRepr(stack_repr, e_repr.value), UserDumpPath(dump_path))

\* _dump(stack, e, dump_path) in the current state
_dump(stack, e, dump_path) ==
    DumpTexts(_stack_dumps(stack, _global_package_name), _exception_dumps(e), dump_path)

(* ----------------------------- inputs ----------------------------------- *)


PkgP == <<"p">>
PkgQ == <<"q">>

\* Frames of the modules p, p.a, pa and q, and a module-less frame
FrameP == FrameInfo(Some(<<"p">>), 1, "main", <<<<"x">>>>, <<PyInt(1)>>)
FramePA ==
    FrameInfo(Some(<<"p", ".", "a">>), 2, "run", <<<<"self">>, <<"y">>>>,
              <<Val("obj", 0, <<"<Obj>">>, <<PyStr(<<"k">>)>>, <<PyInt(1)>>),
                PyCont("list", <<PyInt(1), PyNone>>)>>)
FramePrefix == FrameInfo(Some(<<"p", "a">>), 3, "helper", <<>>, <<>>)
FrameQ == FrameInfo(Some(<<"q">>), 4, "lib", <<<<"s">>>>, <<PyStr(<<"a", NL>>)>>)
FrameNoModule == FrameInfo(None, 5, "__init__", <<<<"z">>>>, <<PyInt(0)>>)

FrameSet == {FrameP, FramePA, FramePrefix, FrameQ, FrameNoModule}

\* Every stack of at most n frames
RECURSIVE StacksUpTo(_)
StacksUpTo(n) ==
    IF n = 0 THEN {<<>>}
    ELSE LET shorter == StacksUpTo(n - 1)
         IN  shorter \cup {Append(st, f) : st \in shorter, f \in FrameSet}

\* Every sequence of at most n elements of S
SeqsUpTo(S, n) == UNION {[1..k -> S] : k \in 0..n}

\* Python's ==, as far as the values here go: True == 1
PyEq(a, b) == a = b \/ (a.t \in {"int", "bool"} /\ b.t \in {"int", "bool"} /\ a.n = b.n)

\* No two elements equal: what the elements of a set and the keys of a dict are
Distinct(items) ==
    \A i \in 1..Len(items), j \in 1..Len(items) : i # j => ~PyEq(items[i], items[j])

\* Scalars: an int, a bool, a str and a bytes with a newline, None, and an
\* object whose __repr__ spans two lines
Atoms ==
    {PyInt(1), PyBool(1), PyStr(<<"a", NL>>), PyBytes(<<NL, SQ>>), PyNone,
     PyObj(<<"<", NL, ">">>)}

\* Values that nest
InnerValues ==
    {PyCont("list", <<PyInt(1), PyStr(<<"a">>)>>),
     PyCont("tuple", <<PyObj(<<"<", NL, ">">>)>>),
     PyDict("dict", <<PyStr(<<"k">>)>>, <<PyCont("deque", <<PyNone>>)>>),
     PyDict("dict", <<>>, <<>>),
     PyDataclass(<<PyStr(<<"f">>)>>, <<PyInt(1)>>)}

Elements == Atoms \cup InnerValues

\* hash(v) works: not for a list, a deque, a dict or a dataclass with eq
Hashable == {v \in Elements : v.t \notin {"list", "deque", "dict", "dataclass"}}

DictKeys == {PyStr(<<"k">>), PyInt(1)}

\* The field names of a dataclass of k fields: f1, f2, ...
FieldNames(k) == [i \in 1..k |-> PyStr(<<"f", ToString(i)>>)]

\* The values pformat is studied on
Values ==
    Atoms
    \cup {PyCont(t, items) : t \in {"list", "tuple", "deque"},
                             items \in SeqsUpTo(Elements, MaxLen)}
    \cup {PyCont("set", items) : items \in {x \in SeqsUpTo(Hashable, MaxLen) : Distinct(x)}}
    \cup UNION {{PyDict(t, keys, items) : t \in DictTypes,
                                          items \in [1..Len(keys) -> Elements]} :
                keys \in {x \in SeqsUpTo(DictKeys, MaxLen) : Distinct(x)}}
    \cup UNION {{PyDataclass(FieldNames(k), items) : items \in [1..k -> Elements]} :
                k \in 0..MaxLen}

\* The values of the program's own pformat calls
CallValues ==
    {PyInt(1), PyCont("list", <<PyInt(1), PyNone>>),
     PyDict("dict", <<PyStr(<<"k">>)>>, <<PyCont("deque", <<PyNone>>)>>),
     PyDataclass(<<PyStr(<<"f">>)>>, <<PyInt(1)>>)}

\* The call stacks of the program's own calls
CallStacks == {<<>>, <<FramePA, FrameP>>, <<FrameQ>>}

\* The exceptions a block's body raises
ValueError == Exc("ValueError", TRUE, <<PyStr(<<"b">>), PyInt(3)>>, 1)
KeyboardInterrupt == Exc("KeyboardInterrupt", FALSE, <<>>, 2)
BodyExceptions == {ValueError, KeyboardInterrupt}

\* dump_path arguments
PathA == Some(PathArg("str", <<"/", "a">>))
PathEmpty == Some(PathArg("str", <<>>))
PathReadOnly == Some(PathArg("pathlike", <<"/", "ro">>))
PathRelative == Some(PathArg("bytes", <<"r">>))
BlockPaths == {None, PathEmpty, PathA, PathReadOnly}
ConfigurePaths == {None, PathRelative}

(* ------------------------------ the logger ------------------------------ *)

\* The frames of Yogger's own methods on top of inspect.stack()
LogWithStackFrame == FrameInfo(Some(<<"y">>), 56, "_log_with_stack", <<>>, <<>>)
MethodFrame(method) == FrameInfo(Some(<<"y">>), 62, method, <<>>, <<>>)

\* seq[::-1]
Reverse(seq) == [i \in 1..Len(seq) |-> seq[Len(seq) + 1 - i]]

\* What a logging call did to the files: status, exception, events, files
CallResult(status, raised, events, files, tmp) ==
    [status |-> status, exc |-> raised, events |-> events, files |-> files, tmp |-> tmp]

\* super().log(level, msg) alone
BaseLog(level, msg) ==
    CallResult("return", None, <<LogEvent(level, msg)>>, fs, tmp_count)

\* The level of the methods that fix one
MethodLevelOf(method) ==
    CASE method = "warning" -> WARNING
      [] method = "error" -> ERROR
      [] method = "critical" -> CRITICAL
      [] method = "info" -> INFO
      [] OTHER -> DEBUG

\* Lines 58-59 once _dump has answered with d
LogAfterDump(level, msg, d) ==
    IF d.raised
    THEN CallResult("raise", Some(d.exc), <<LogEvent(level, msg)>> \o d.events,
                    d.files, d.tmp)
    ELSE CallResult("return", None,
                    <<LogEvent(level, msg)>> \o d.events
                        \o <<LogEvent(level, DumpMsg(d.name))>>,
                    d.files, d.tmp)

\* Yogger._log_with_stack(level, msg) called through `method` from `caller`
\* (the caller's frames, innermost first, as inspect.stack() lists them)
StackOf(method, caller) == <<LogWithStackFrame, MethodFrame(method)>> \o caller

_log_with_stack(method, level, msg, caller) ==
    IF _global_dump_locals /\ Len(StackOf(method, caller)) > 2
    THEN LogAfterDump(level, msg,
                      _dump(Reverse(SubSeq(StackOf(method, caller), 3,
                                           Len(StackOf(method, caller)))),
                            None, None))
    ELSE BaseLog(level, msg)

\* A log() that takes the stack path whatever the level
LogAnyLevelWithStack(method, level, msg, caller) ==
    _log_with_stack(method, level, msg, caller)

\* Yogger.log (lines 70-74)
YoggerLog(method, level, msg, caller) ==
    IF level >= WARNING THEN _log_with_stack(method, level, msg, caller)
    ELSE BaseLog(level, msg)

\* The methods of a Yogger logger: warning, error, critical and log are
\* overridden (lines 61-74); info and debug are logging.Logger's.
Yogger(method, level, msg, caller) ==
    CASE method \in {"warning", "error", "critical"} ->
            _log_with_stack(method, MethodLevelOf(method), msg, caller)
      [] method = "log" -> YoggerLog(method, level, msg, caller)
      [] OTHER -> BaseLog(MethodLevelOf(method), msg)

\* The level a call logs at
MethodLevel(method, level) == IF method = "log" THEN level ELSE MethodLevelOf(method)

LogMethods == {"warning", "error", "critical", "log", "info", "debug"}
LogLevels == {DEBUG, INFO, WARNING, ERROR}
LogMessage == <<"m">>

\* logger.<method>(...) on a Yogger logger, from a caller with the frames
\* `caller`; level is the argument of log()
LogCall(method, level, caller) ==
    /\ ~exc.some
    /\ n_dumps < MaxDumps
    /\ \E r \in {Yogger(method, level, LogMessage, caller)} :
           /\ fs' = r.files
           /\ tmp_count' = r.tmp
           /\ n_dumps' = n_dumps + Len(SelectSeq(r.events, IsWrite))
           /\ last' = Outcome(method, MethodLevel(method, level), Len(caller), None,
                              r.status, r.exc, <<>>, r.events)
    /\ arg' = [arg EXCEPT !.stack = caller]
    /\ UNCHANGED <<config_vars, logging_vars, block_vars, pf_first>>

(* ------------------------------ configure ------------------------------- *)

\* A _set_levels that leaves the handlers as they are
SetHandlerLevelsNone(handlers, level) == handlers

\* _set_levels(logger, level) on the root logger's handlers
SetHandlerLevels(handlers, level) ==
    [i \in 1..Len(handlers) |-> [handlers[i] EXCEPT !.level = level]]

\* seq without its i-th element
RemoveAt(seq, i) == SubSeq(seq, 1, i - 1) \o SubSeq(seq, i + 1, Len(seq))

\* _remove_handlers(logger): the for loop walks logger.handlers by position
\* while removeHandler takes the visited handler out of that same list.
RECURSIVE _remove_handlers(_, _)
_remove_handlers(handlers, position) ==
    IF position > Len(handlers) THEN handlers
    ELSE _remove_handlers(RemoveAt(handlers, position), position + 1)

\* A configure that forgets the dump path when called without one
ConfigureResettingPath(package_name, verbosity, dump_locals, dump_path) ==
    /\ ~exc.some
    /\ _global_package_name' = Some(package_name)
    /\ _global_dump_locals' = dump_locals
    /\ _global_dump_path' =
           IF dump_path.some THEN Some(PathArg("str", _resolve_path(dump_path.v)))
           ELSE None
    /\ LET level == IF verbosity = 1 THEN INFO ELSE DEBUG
           levelled == IF verbosity > 0 THEN SetHandlerLevels(root_handlers, level)
                       ELSE root_handlers
           kept == _remove_handlers(levelled, 1)
       IN  /\ root_level' = IF verbosity > 0 THEN level ELSE root_level
           /\ root_handlers' =
                  Append([i \in 1..Len(kept) |-> [kept[i] EXCEPT !.latest = FALSE]],
                         [origin |-> "configure", level |-> NOTSET, latest |-> TRUE])
    /\ requests_level' = IF verbosity <= 1 THEN INFO ELSE DEBUG
    /\ urllib3_level' = IF verbosity <= 1 THEN INFO ELSE DEBUG
    /\ last' = Outcome("configure", 0, 0, None, "return", None, <<>>, <<>>)
    /\ UNCHANGED <<file_vars, block_vars, arg, pf_first>>

\* configure(package_name, verbosity=, dump_locals=, dump_path=)
Configure(package_name, verbosity, dump_locals, dump_path) ==
    /\ ~exc.some
    /\ _global_package_name' = Some(package_name)
    /\ _global_dump_locals' = dump_locals
    /\ _global_dump_path' =
           IF dump_path.some THEN Some(PathArg("str", _resolve_path(dump_path.v)))
           ELSE _global_dump_path
    /\ LET level == IF verbosity = 1 THEN INFO ELSE DEBUG
           levelled == IF verbosity > 0 THEN SetHandlerLevels(root_handlers, level)
                       ELSE root_handlers
           kept == _remove_handlers(levelled, 1)
       IN  /\ root_level' = IF verbosity > 0 THEN level ELSE root_level
           /\ root_handlers' =
                  Append([i \in 1..Len(kept) |-> [kept[i] EXCEPT !.latest = FALSE]],
                         [origin |-> "configure", level |-> NOTSET, latest |-> TRUE])
    /\ requests_level' = IF verbosity <= 1 THEN INFO ELSE DEBUG
    /\ urllib3_level' = IF verbosity <= 1 THEN INFO ELSE DEBUG
    /\ last' = Outcome("configure", 0, 0, None, "return", None, <<>>, <<>>)
    /\ UNCHANGED <<file_vars, block_vars, arg, pf_first>>

Verbosities == {0, 2}

(* -------------------------- dump_on_exception --------------------------- *)

\* The record of the generator's own frame, first in inspect.trace()
GeneratorFrame == FrameInfo(Some(<<"y">>), 411, "dump_on_exception", <<>>, <<>>)

\* with dump_on_exception(dump_path): the block is entered
EnterBlock(dump_path) ==
    /\ ~exc.some
    /\ Len(cm_stack) < MaxNest
    /\ n_dumps + Len(cm_stack) < MaxDumps
    /\ cm_stack' = Append(cm_stack, dump_path)
    /\ UNCHANGED <<config_vars, logging_vars, file_vars, exc, last, arg, pf_first>>

\* The body of the innermost block ends without an exception
BodyReturn ==
    /\ ~exc.some
    /\ cm_stack # <<>>
    /\ cm_stack' = SubSeq(cm_stack, 1, Len(cm_stack) - 1)
    /\ last' = Outcome("dump_on_exception", 0, 0, None, "return", None, <<>>, <<>>)
    /\ UNCHANGED <<config_vars, logging_vars, file_vars, exc, arg, pf_first>>

\* The body of the innermost block raises e
BodyRaise(e) ==
    /\ ~exc.some
    /\ cm_stack # <<>>
    /\ exc' = Some(e)
    /\ UNCHANGED <<config_vars, logging_vars, file_vars, cm_stack, last, arg, pf_first>>

\* An except clause without its `raise`: the exception ends in the block
SwallowAfterDump(caught, d) ==
    CallResult("return", None, d.events \o <<LogEvent(CRITICAL, DumpMsg(d.name))>>,
               d.files, d.tmp)

\* An except clause that guards _dump: a failed dump is dropped and the
\* caught exception is raised as if the dump had been made
MaskDumpFailure(caught, d) ==
    CallResult("raise", caught, d.events \o <<LogEvent(CRITICAL, DumpMsg(d.name))>>,
               d.files, d.tmp)

\* Lines 415-418 once _dump has answered with d
RaiseAfterDump(caught, d) ==
    IF d.raised
    THEN CallResult("raise", Some(d.exc), d.events, d.files, d.tmp)
    ELSE CallResult("raise", caught,
                    d.events \o <<LogEvent(CRITICAL, DumpMsg(d.name))>>,
                    d.files, d.tmp)

\* What the except clause of lines 412-418 does with the exception `caught`
\* for the block of argument dump_path; trace is inspect.trace(), the
\* generator's own record first, then the body's frames, outermost first.
\* An exception that is no Exception passes the clause by.
ExceptClause(caught, dump_path, trace) ==
    IF caught.v.is_exception /\ Len(trace) > 1
    THEN RaiseAfterDump(caught, _dump(SubSeq(trace, 2, Len(trace)), caught, dump_path))
    ELSE CallResult("raise", caught, <<>>, fs, tmp_count)

\* The exception in flight reaches the innermost block and leaves it
ExceptHandler(trace_body) ==
    /\ exc.some
    /\ cm_stack # <<>>
    /\ \E r \in {ExceptClause(exc, cm_stack[Len(cm_stack)],
                                <<GeneratorFrame>> \o trace_body)} :
           /\ fs' = r.files
           /\ tmp_count' = r.tmp
           /\ n_dumps' = n_dumps + Len(SelectSeq(r.events, IsWrite))
           /\ cm_stack' = SubSeq(cm_stack, 1, Len(cm_stack) - 1)
           /\ exc' = IF Len(cm_stack) = 1 THEN None ELSE r.exc
           /\ last' = Outcome("dump_on_exception", CRITICAL, Len(trace_body) + 1, exc,
                              r.status, r.exc, <<>>, r.events)
    /\ UNCHANGED <<config_vars, logging_vars, arg, pf_first>>

(* ----------------------- dumps, dump and pformat ------------------------ *)

\* yogger.dumps(stack)
DumpsCall(stack) ==
    /\ ~exc.some
    /\ last' = Outcome("dumps", 0, Len(stack), None, "return", None, dumps(stack), <<>>)
    /\ UNCHANGED <<config_vars, logging_vars, file_vars, block_vars, arg, pf_first>>

\* yogger.dump(file_obj, stack): one write to the caller's file object
DumpCall(stack) ==
    /\ ~exc.some
    /\ last' = Outcome("dump", 0, Len(stack), None, "return", None, <<>>,
                       <<WriteEvent(<<"file_obj">>, dumps(stack))>>)
    /\ UNCHANGED <<config_vars, logging_vars, file_vars, block_vars, arg, pf_first>>

\* yogger.pformat(name, value)
PFormatCall(name, value) ==
    /\ ~exc.some
    /\ LET out == pformat(name, value)
       IN  /\ last' = Outcome("pformat", 0, 0, None, "return", None, out, <<>>)
           /\ arg' = [arg EXCEPT !.name = name, !.value = value]
           /\ pf_first' = IF pf_first.some THEN pf_first
                          ELSE Some([name |-> name, value |-> value, out |-> out,
                                     package_name |-> _global_package_name,
                                     dump_path |-> _global_dump_path,
                                     dump_locals |-> _global_dump_locals])
    /\ UNCHANGED <<config_vars, logging_vars, file_vars, block_vars>>

(* --------------------------- specifications ----------------------------- *)

\* configure with its arguments drawn from the given sets
ConfigureFrom(package_names, verbosities, locals_flags, dump_paths) ==
    \E package_name \in package_names, verbosity \in verbosities,
       dump_locals \in locals_flags, dump_path \in dump_paths :
        Configure(package_name, verbosity, dump_locals, dump_path)

(* The program configures itself and runs dump_on_exception blocks.         *)
ConfigureStep == ConfigureFrom({PkgP}, {0}, {FALSE}, ConfigurePaths)

EnterStep == \E dump_path \in BlockPaths : EnterBlock(dump_path)

RaiseStep == \E e \in BodyExceptions : BodyRaise(e)

HandlerStep == \E trace_body \in CallStacks : ExceptHandler(trace_body)

Next ==
    \/ ConfigureStep
    \/ EnterStep
    \/ BodyReturn
    \/ RaiseStep
    \/ HandlerStep

Spec == Init /\ [][Next]_vars

(* The program configures itself and logs through a Yogger logger.          *)
ConfigureLogStep == ConfigureFrom({PkgP, PkgQ}, Verbosities, BOOLEAN, ConfigurePaths)

LogStep ==
    \E method \in LogMethods, level \in LogLevels, caller \in CallStacks :
        LogCall(method, level, caller)

NextLog ==
    \/ ConfigureLogStep
    \/ LogStep

SpecLog == Init /\ [][NextLog]_vars

(* The program configures itself, formats values and takes stack texts.     *)
PFormatStep == \E value \in CallValues : PFormatCall(<<"v">>, value)

DumpsStep == \E stack \in CallStacks : DumpsCall(stack)

NextDet ==
    \/ ConfigureLogStep
    \/ PFormatStep
    \/ DumpsStep

SpecDet == Init /\ [][NextDet]_vars

(* pformat on each value of Values.                                         *)
InitPF ==
    /\ Unconfigured
    /\ arg \in {[name |-> <<"v">>, value |-> value, stack |-> <<>>] : value \in Values}

NextPF == PFormatCall(arg.name, arg.value)

SpecPF == InitPF /\ [][NextPF]_vars

(* The stack texts of each stack of at most MaxStack frames: a block has    *)
(* been entered with no dump_path and its body has raised, with no package  *)
(* configured or after configure("p") or configure("q").                    *)
InitSD ==
    /\ _global_package_name \in {None, Some(PkgP), Some(PkgQ)}
    /\ _global_dump_path = None
    /\ _global_dump_locals = FALSE
    /\ root_level = WARNING
    /\ root_handlers =
           IF _global_package_name.some
           THEN <<[origin |-> "configure", level |-> NOTSET, latest |-> TRUE]>>
           ELSE <<>>
    /\ requests_level = (IF _global_package_name.some THEN INFO ELSE NOTSET)
    /\ urllib3_level = (IF _global_package_name.some THEN INFO ELSE NOTSET)
    /\ fs = <<>>
    /\ tmp_count = 0
    /\ n_dumps = 0
    /\ cm_stack = <<None>>
    /\ exc = Some(ValueError)
    /\ last = Outcome("init", 0, 0, None, "return", None, <<>>, <<>>)
    /\ pf_first = None
    /\ arg \in {[name |-> <<>>, value |-> PyNone, stack |-> stack] :
                    stack \in StacksUpTo(MaxStack)}

NextSD ==
    \/ ExceptHandler(arg.stack)
    \/ DumpsCall(arg.stack)
    \/ DumpCall(arg.stack)

SpecSD == InitSD /\ [][NextSD]_vars

(* The program attaches handlers of its own to the root logger, configures  *)
(* itself over and over, and lets an exception pass a block.                *)

\* logging.getLogger().addHandler(handler) by the program, the handler at
\* the given level
AddHandler(level) ==
    /\ ~exc.some
    /\ Len(root_handlers) < MaxHandlers
    /\ root_handlers' =
           Append(root_handlers, [origin |-> "program", level |-> level, latest |-> FALSE])
    /\ last' = Outcome("addHandler", level, 0, None, "return", None, <<>>, <<>>)
    /\ UNCHANGED <<config_vars, root_level, requests_level, urllib3_level, file_vars,
                   block_vars, arg, pf_first>>

VerbositiesCfg == {0 - 1, 0, 1, 2, 3}
PackagesCfg == {PkgP, PkgQ}
PathsCfg == {None, PathA}

ConfigureCfgStep == ConfigureFrom(PackagesCfg, VerbositiesCfg, BOOLEAN, PathsCfg)

AddHandlerStep == AddHandler(ERROR)

EnterCfgStep == EnterBlock(None)

RaiseCfgStep == BodyRaise(ValueError)

HandlerCfgStep == ExceptHandler(<<FrameP>>)

NextCfg ==
    \/ ConfigureCfgStep
    \/ AddHandlerStep
    \/ EnterCfgStep
    \/ RaiseCfgStep
    \/ HandlerCfgStep

SpecCfg == Init /\ [][NextCfg]_vars

(* ------------------------------ reading text ---------------------------- *)

\* The places of token tok in text, in order
Places(text, tok) ==
    SelectSeq([i \in 1..Len(text) |-> i], LAMBDA i : text[i] = tok)

\* text cut at its newlines
SplitLines(text) ==
    LET cuts == <<0>> \o Places(text, NL) \o <<Len(text) + 1>>
    IN  [k \in 1..(Len(cuts) - 1) |-> SubSeq(text, cuts[k] + 1, cuts[k + 1] - 1)]

\* Whether text ends with tail
EndsWith(text, tail) ==
    /\ Len(tail) <= Len(text)
    /\ SubSeq(text, Len(text) - Len(tail) + 1, Len(text)) = tail

\* The line numbers named by the "Locals from file ..., line N" headers of
\* a stack text, in order
SectionLinenos(text) ==
    LET heads == Places(text, "Locals")
    IN  [k \in 1..Len(heads) |-> text[heads[k] + 13]]

\* The dump_path argument of the innermost block entered
BlockDumpPath == cm_stack[Len(cm_stack)]

\* An exception in flight leaves the innermost block in this step
LeavesBlock == exc.some /\ cm_stack # <<>> /\ Len(cm_stack') < Len(cm_stack)

\* This step wrote a dump and logged its message
DumpedInStep ==
    /\ Len(last'.events) = 2
    /\ IsWrite(last'.events[1])
    /\ last'.events[2] = LogEvent(CRITICAL, DumpMsg(last'.events[1].path))
    /\ FileIndex(fs', last'.events[1].path) # 0
    /\ EndsWith(fs'[FileIndex(fs', last'.events[1].path)].content, last'.events[1].text)

(* -------------------------------- C1 ------------------------------------ *)

\* C1: an Exception raised inside a dump_on_exception block leaves the block
\* as the same exception object, raised again only after the dump is written
\* and the dump message is logged at CRITICAL; with a trace of a single
\* record nothing is written and the exception is still raised again; the
\* only other exception that comes out is that of a dump that could not be
\* written, and then nothing was written or logged.
C1_ReRaisesSameException ==
    [][LeavesBlock /\ exc.v.is_exception
       => /\ last'.op = "dump_on_exception"
          /\ last'.caught = exc
          /\ last'.status = "raise"
          /\ \/ /\ last'.nframes = 1
                /\ last'.events = <<>>
                /\ fs' = fs
                /\ last'.exc = exc
             \/ /\ last'.nframes > 1
                /\ DumpedInStep
                /\ last'.exc = exc
             \/ /\ last'.nframes > 1
                /\ last'.events = <<>>
                /\ fs' = fs
                /\ UserDumpPath(BlockDumpPath).some
                /\ _resolve_path(UserDumpPath(BlockDumpPath).v) \in Unwritable
          /\ exc' = (IF cm_stack' = <<>> THEN None ELSE last'.exc)]_vars

\* A ValueError left a block after its dump was written and logged
C1_Witness ==
    /\ last.op = "dump_on_exception"
    /\ last.caught = Some(ValueError)
    /\ last.status = "raise"
    /\ last.exc = last.caught
    /\ Len(last.events) = 2
    /\ IsWrite(last.events[1])

(* -------------------------------- C2 ------------------------------------ *)

\* C2 as stated: with dump_locals on, a warning, error, critical or log at
\* WARNING or above, called from a caller with a frame of its own, emits its
\* record, writes one dump, emits the dump message at the same level and
\* returns normally.
C2_LogsDumpsAndReturns ==
    (/\ last.op \in {"warning", "error", "critical", "log"}
     /\ last.level >= WARNING
     /\ _global_dump_locals
     /\ last.nframes >= 1)
    => /\ last.status = "return"
       /\ Len(last.events) = 3
       /\ last.events[1] = LogEvent(last.level, LogMessage)
       /\ IsWrite(last.events[2])
       /\ last.events[3] = LogEvent(last.level, DumpMsg(last.events[2].path))

(* -------------------------------- C3 ------------------------------------ *)

\* C3: a Yogger logging call below WARNING, whatever dump_locals is, and a
\* Yogger logging call at any level while dump_locals is False, writes no
\* file and does what the base logger's log does at that level: one record,
\* a normal return.
C3_NoDumpOtherwise ==
    [][(/\ last'.op \in LogMethods
        /\ last'.level < WARNING \/ ~_global_dump_locals)
       => /\ fs' = fs
          /\ tmp_count' = tmp_count
          /\ last'.status = "return"
          /\ last'.events = <<LogEvent(last'.level, LogMessage)>>]_vars

\* log(INFO, ...) was called from a function while dump_locals is on
C3_Witness ==
    /\ last.op = "log"
    /\ last.level = INFO
    /\ _global_dump_locals
    /\ last.nframes >= 1
    /\ last.events = <<LogEvent(INFO, LogMessage)>>

(* -------------------------------- C4 ------------------------------------ *)

\* The text of the dump the last dump_on_exception block wrote
LastDumpText == last.events[1].text

BlockDumped == last.op = "dump_on_exception" /\ Len(last.events) = 2

\* C4 as stated: a dump written by dump_on_exception opens with the
\* exception summary, and no frame section comes before the summary.
C4_SummaryFirst ==
    BlockDumped
    => /\ LastDumpText # <<>>
       /\ LastDumpText[1] = "Exception:"
       /\ Places(LastDumpText, "Locals") # <<>>
          => Places(LastDumpText, "Locals")[1] > Places(LastDumpText, "Exception:")[1]

\* C4, amended: a dump written by dump_on_exception holds the frame sections
\* first, then an empty line, then the summary of the caught exception (its
\* type, message and args), which ends the text; no frame section comes
\* after the summary.
C4_SummaryLast ==
    BlockDumped
    => LET summary == Places(LastDumpText, "Exception:")
           sections == Places(LastDumpText, "Locals")
       IN  /\ Len(summary) = 1
           /\ \A k \in 1..Len(sections) : sections[k] < summary[1]
           /\ summary[1] > 1
           /\ LastDumpText[summary[1] - 1] = NL
           /\ SubSeq(LastDumpText, summary[1], Len(LastDumpText))
                  = _exception_dumps(last.caught).value
           /\ sections # <<>> => sections[1] = 1

\* A dump with two frame sections was written by a block
C4_Witness ==
    /\ BlockDumped
    /\ Len(Places(LastDumpText, "Locals")) = 2
    /\ last.caught = Some(ValueError)

(* -------------------------------- C5 ------------------------------------ *)

\* The module a frame of a stack originates from: its own, or for a frame
\* without one that of the nearest earlier frame that has one
OriginModule(stack, i) ==
    IF stack[i].module.some THEN stack[i].module
    ELSE IF \E j \in 1..(i - 1) : stack[j].module.some
         THEN stack[CHOOSE j \in 1..(i - 1) :
                        /\ stack[j].module.some
                        /\ \A k \in (j + 1)..(i - 1) : ~stack[k].module.some].module
         ELSE None

\* module_name is exactly P, or P followed by a dot and more
BelongsTo(module_name, P) ==
    \/ module_name = P
    \/ /\ Len(module_name) > Len(P)
       /\ SubSeq(module_name, 1, Len(P)) = P
       /\ module_name[Len(P) + 1] = "."

\* The line numbers of the frames of a stack that originate in package P,
\* in stack order
PackageLinenos(stack, P) ==
    LET kept == SelectSeq([i \in 1..Len(stack) |-> i],
                          LAMBDA i : /\ OriginModule(stack, i).some
                                     /\ BelongsTo(OriginModule(stack, i).v, P))
    IN  [k \in 1..Len(kept) |-> ToString(stack[kept[k]].lineno)]

\* C5: with a package name P configured, the dump _dump writes holds a
\* section for a frame exactly when the frame's originating module is P or
\* starts with P and a dot; a module that only has P as a string prefix, or
\* any other package, gets no section; the sections keep the stack's order.
C5_PackageFilter ==
    (BlockDumped /\ _global_package_name.some)
    => SectionLinenos(LastDumpText) = PackageLinenos(arg.stack, _global_package_name.v)

\* A dump of the stack p.a, pa, p made with package p: sections for p.a and p
C5_Witness ==
    /\ BlockDumped
    /\ _global_package_name = Some(PkgP)
    /\ arg.stack = <<FramePA, FramePrefix, FrameP>>
    /\ SectionLinenos(LastDumpText) = <<"2", "1">>

(* -------------------------------- C6 ------------------------------------ *)

\* C6 as stated: dumps(stack) holds one section for every frame record of
\* the stack, in stack order, whatever package name is configured, and
\* dump(file_obj, stack) writes that text to file_obj in one write.
C6_EveryFrameDumped ==
    /\ last.op = "dumps"
       => SectionLinenos(last.value)
              = [i \in 1..Len(arg.stack) |-> ToString(arg.stack[i].lineno)]
    /\ last.op = "dump"
       => /\ Len(last.events) = 1
          /\ IsWrite(last.events[1])
          /\ SectionLinenos(last.events[1].text)
                 = [i \in 1..Len(arg.stack) |-> ToString(arg.stack[i].lineno)]

(* -------------------------------- C7 ------------------------------------ *)

\* The dump of this step went to the file `path`, which is no temporary file
WroteTo(path) ==
    /\ last'.events[1].path = path
    /\ ~fs'[FileIndex(fs', path)].temp

\* The dump of this step went to a temporary file made in this step, named
\* with the package prefix, and kept
WroteNewTemp ==
    LET path == last'.events[1].path
        prefix == IF _global_package_name.some
                  THEN _global_package_name.v \o <<"_stack_and_locals">>
                  ELSE <<"stack_and_locals">>
    IN  /\ FileIndex(fs, path) = 0
        /\ StartsWith(path, <<"/", "tmp", "/">> \o prefix)
        /\ fs' = Append(fs, [name |-> path, content |-> last'.events[1].text,
                             temp |-> TRUE])

\* The precedence of destinations, `given` telling whether the block's
\* dump_path counts as given
Destination(given) ==
    IF given THEN WroteTo(_resolve_path(BlockDumpPath.v))
    ELSE IF _global_dump_path.some THEN WroteTo(_global_dump_path.v.p)
    ELSE WroteNewTemp

\* C7 as stated: a dump goes to the dump_path passed to dump_on_exception if
\* one is given (not None), else to the path set by configure, else to a
\* new kept temporary file with the package prefix; the name in the dump
\* message is the path written.
C7_GivenPathFirst ==
    [][(LeavesBlock /\ Len(last'.events) = 2)
       => DumpedInStep /\ Destination(BlockDumpPath.some)]_vars

\* C7, amended: a dump goes to the dump_path passed to dump_on_exception if
\* it is given and not empty (None, "" and b"" count as not given), else to
\* the path set by configure, else to a new kept temporary file with the
\* package prefix; the name in the dump message is the path written.
C7_NonEmptyPathFirst ==
    [][(LeavesBlock /\ Len(last'.events) = 2)
       => DumpedInStep /\ Destination(Truthy(BlockDumpPath))]_vars

\* Dumps went to a temporary file and to the path /a given to a block
C7_Witness ==
    /\ BlockDumped
    /\ \E i \in 1..Len(fs) : fs[i].temp
    /\ \E i \in 1..Len(fs) : fs[i].name = PathA.v.p /\ ~fs[i].temp

(* -------------------------------- C8 ------------------------------------ *)

LeadingSpaces(line) ==
    CHOOSE n \in 0..Len(line) :
        /\ \A i \in 1..n : line[i] = SP
        /\ n = Len(line) \/ line[n + 1] # SP

\* C11 as stated: in pformat(name, value) the first line starts with the
\* name at column 0, every later line is non-empty and begins with a
\* positive multiple of two spaces, and no line, the last included, ends in
\* whitespace; for every value, empty dicts and dataclasses included.
C11_IndentedNoTrailingSpace ==
    last.op = "pformat"
    => LET lines == SplitLines(last.value)
       IN  /\ StartsWith(lines[1], arg.name)
           /\ \A k \in 2..Len(lines) :
                  /\ lines[k] # <<>>
                  /\ LeadingSpaces(lines[k]) > 0
                  /\ LeadingSpaces(lines[k]) % 2 = 0
           /\ \A k \in 1..Len(lines) :
                  lines[k] # <<>> => lines[k][Len(lines[k])] # SP

(* -------------------------------- C12 ----------------------------------- *)

\* The file the dump of the innermost block would go to cannot be opened
BlockTargetUnwritable ==
    /\ UserDumpPath(BlockDumpPath).some
    /\ _resolve_path(UserDumpPath(BlockDumpPath).v) \in Unwritable

\* C12: a block whose body raised never ends normally; and when the dump
\* cannot be written, the failure of the write is what comes out of the
\* block, nothing is written and no dump message is logged.
C12_DumpFailureNotMasked ==
    [][LeavesBlock
       => /\ last'.status = "raise"
          /\ last'.exc.some
          /\ (exc.v.is_exception /\ last'.nframes > 1 /\ BlockTargetUnwritable)
             => /\ last'.exc = Some(PermissionError)
                /\ last'.events = <<>>
                /\ fs' = fs
                /\ cm_stack' # <<>> => exc' = Some(PermissionError)]_vars

\* A ValueError reached a block whose dump file could not be opened
C12_Witness ==
    /\ last.op = "dump_on_exception"
    /\ last.caught = Some(ValueError)
    /\ last.nframes > 1
    /\ last.status = "raise"
    /\ last.exc = Some(PermissionError)
    /\ last.events = <<>>

(* -------------------------------- C13 ----------------------------------- *)

\* C13 as stated: a representation of a container or of a generic value
\* that holds a newline comes back from _apply_line_continuation with a
\* backslash, a newline and two spaces in front and two more spaces after
\* each newline inside it; one without a newline comes back unchanged.
C13_LineContinuation ==
    (/\ last.op = "pformat"
     /\ arg.value.t \notin {"dict", "OrderedDict", "dataclass"})
    => LET plain == arg.name \o <<SP, "=", SP>> \o Repr(arg.value)
       IN  /\ Contains(last.value, NL)
              => /\ SubSeq(last.value, 1, 4) = <<BSL, NL, SP, SP>>
                 /\ \A i \in 5..Len(last.value) :
                        last.value[i] = NL
                        => /\ i + 2 <= Len(last.value)
                           /\ last.value[i + 1] = SP
                           /\ last.value[i + 2] = SP
           /\ (/\ arg.value.t \notin {"list", "tuple", "set", "deque"}
               /\ Contains(plain, NL))
              => last.value = <<BSL, NL, SP, SP>> \o StrReplace(plain, NL, <<NL, SP, SP>>)
           /\ (/\ arg.value.t \notin {"list", "tuple", "set", "deque"}
               /\ ~Contains(plain, NL))
              => last.value = plain

(* -------------------------------- C14 ----------------------------------- *)

\* C14 as stated: after any call of configure, whatever handlers the root
\* logger had and however often configure ran before, the root logger has
\* exactly one handler, the stream handler that call created.
C14_OneHandlerAfterConfigure ==
    last.op = "configure"
    => /\ Len(root_handlers) = 1
       /\ root_handlers[1].origin = "configure"
       /\ root_handlers[1].latest

(* -------------------------------- C15 ----------------------------------- *)

\* The lines of a text that are not empty
NonEmptyLines(text) == SelectSeq(SplitLines(text), LAMBDA line : line # <<>>)

\* The lines of the entry of the i-th local of a frame: its name, its type
\* and pformat of name and value, the later lines two spaces further in
LocalLines(frame_record, i) ==
    LET value_lines == SplitLines(pformat(frame_record.names[i], frame_record.values[i]))
    IN  [k \in 1..Len(value_lines) |->
            IF k = 1
            THEN <<SP, SP>> \o frame_record.names[i] \o <<SP>>
                 \o TypeStr(frame_record.values[i]) \o <<SP, "=", SP>> \o value_lines[1]
            ELSE <<SP, SP>> \o value_lines[k]]

\* The lines of the section of a frame: header, locals, and the Object dict
\* block when a local called self has an attribute mapping
SectionLines(frame_record) ==
    <<<<"Locals", SP, "from", SP, "file", SP, DQ, frame_record.filename, DQ, ",", SP,
        "line", SP, ToString(frame_record.lineno), ",", SP, "in", SP,
        frame_record.function, ":">>>>
    \o Join(<<>>, [i \in 1..Len(frame_record.names) |-> LocalLines(frame_record, i)])
    \o (IF \E i \in 1..Len(frame_record.names) :
              /\ frame_record.names[i] = <<"self">>
              /\ HasDict(frame_record.values[i])
        THEN LET i == CHOOSE i \in 1..Len(frame_record.names) :
                          frame_record.names[i] = <<"self">>
             IN  <<<<"Object", SP, "dict:">>, Repr(ObjectDict(frame_record.values[i]))>>
        ELSE <<>>)

\* C15: the stack text holds, for each included frame in stack order, one
\* section: the 'Locals from file "<filename>", line <n>, in <function>:'
\* header, one entry per local (name, type, pformat of name and value, its
\* later lines two spaces further in) and, exactly when the frame has a
\* local self with an attribute mapping, the 'Object dict:' block with the
\* repr of the mapping.
C15_SectionLayout ==
    last.op = "dumps"
    => LET kept == SelectSeq([i \in 1..Len(arg.stack) |-> i],
                             LAMBDA i : OriginModule(arg.stack, i).some)
       IN  NonEmptyLines(last.value)
               = Join(<<>>, [k \in 1..Len(kept) |-> SectionLines(arg.stack[kept[k]])])

\* The stack text of p, p.a: the second frame has a self with attributes
C15_Witness ==
    /\ last.op = "dumps"
    /\ arg.stack = <<FrameP, FramePA>>
    /\ Len(Places(last.value, "Object")) = 1
    /\ Len(Places(last.value, "Locals")) = 2

(* -------------------------------- C16 ----------------------------------- *)

\* The handlers the root logger keeps from before this step: all but the
\* last of the handlers after it
KeptHandlers == SubSeq(root_handlers', 1, Len(root_handlers') - 1)

\* What configure with the given verbosity does to the levels
LevelsAfter(verbosity) ==
    /\ root_level' = (IF verbosity <= 0 THEN root_level
                      ELSE IF verbosity = 1 THEN INFO ELSE DEBUG)
    /\ requests_level' = (IF verbosity >= 2 THEN DEBUG ELSE INFO)
    /\ urllib3_level' = (IF verbosity >= 2 THEN DEBUG ELSE INFO)
    /\ root_handlers' # <<>>
    /\ root_handlers'[Len(root_handlers')].origin = "configure"
    /\ root_handlers'[Len(root_handlers')].level = NOTSET
    /\ \A k \in 1..Len(KeptHandlers) :
           IF verbosity <= 0
           THEN \E j \in 1..Len(root_handlers) :
                    /\ KeptHandlers[k].origin = root_handlers[j].origin
                    /\ KeptHandlers[k].level = root_handlers[j].level
           ELSE KeptHandlers[k].level = (IF verbosity = 1 THEN INFO ELSE DEBUG)

\* C16: configure with verbosity 0 or less leaves the level of the root
\* logger and of its handlers alone, with verbosity 1 sets them to INFO and
\* with 2 or more to DEBUG; requests and urllib3 go to DEBUG exactly for
\* verbosity 2 or more and to INFO otherwise; the stream handler configure
\* adds stays at its default level.
C16_VerbosityLevels ==
    [][\A package_name \in PackagesCfg, verbosity \in VerbositiesCfg,
          dump_locals \in BOOLEAN, dump_path \in PathsCfg :
           Configure(package_name, verbosity, dump_locals, dump_path)
           => LevelsAfter(verbosity)]_vars

\* configure(verbosity=1) ran with a handler of the program attached that
\* stayed: root and that handler at INFO, the new handler at its default
C16_Witness ==
    /\ last.op = "configure"
    /\ root_level = INFO
    /\ requests_level = INFO
    /\ urllib3_level = INFO
    /\ Len(root_handlers) = 2
    /\ root_handlers[1].origin = "program"
    /\ root_handlers[1].level = INFO
    /\ root_handlers[2].level = NOTSET

(* -------------------------------- C17 ----------------------------------- *)

\* lines, each with two more spaces in front
Indented(lines) == [k \in 1..Len(lines) |-> <<SP, SP>> \o lines[k]]

\* The header line name = <module.TypeName>
HeaderLine(name, value) ==
    name \o <<SP, "=", SP, "<", TypeModule(value), ".", TypeName(value), ">">>

\* C17 as stated: for every dict (subclasses and dicts of ints and strs
\* included) pformat(name, value) is the header line and then, key by key
\* in iteration order, the lines of pformat(name[repr(k)], value[k]), each
\* with two more spaces in front.
C17_DictFormat ==
    (last.op = "pformat" /\ arg.value.t \in {"dict", "OrderedDict"})
    => SplitLines(last.value)
           = <<HeaderLine(arg.name, arg.value)>>
             \o Join(<<>>,
                     [i \in 1..Len(arg.value.items) |->
                         Indented(SplitLines(
                             pformat(arg.name \o <<"[">> \o Repr(arg.value.keys[i])
                                         \o <<"]">>,
                                     arg.value.items[i])))])

(* -------------------------------- C18 ----------------------------------- *)

\* C18 as stated: for every dataclass instance pformat(name, value) is the
\* header line and then, field by field in declaration order, the entry
\* name.field = <representation of the field's value>, the field path
\* standing once, two spaces under the header.
C18_DataclassFormat ==
    (last.op = "pformat" /\ arg.value.t = "dataclass")
    => SplitLines(last.value)
           = <<HeaderLine(arg.name, arg.value)>>
             \o Join(<<>>,
                     [i \in 1..Len(arg.value.items) |->
                         Indented(SplitLines(
                             pformat(arg.name \o <<".">> \o arg.value.keys[i].s,
                                     arg.value.items[i])))])

(* -------------------------------- C19 ----------------------------------- *)

\* The nearest frame before the i-th that has a module, 0 when there is none
NearestWithModule(stack, i) ==
    IF \E j \in 1..(i - 1) : stack[j].module.some
    THEN CHOOSE j \in 1..(i - 1) :
             /\ stack[j].module.some
             /\ \A k \in (j + 1)..(i - 1) : ~stack[k].module.some
    ELSE 0

\* Whether the filter of package (None: no filter) lets a frame of the
\* module through
PassesFilter(module_name, package) ==
    ~package.some \/ BelongsTo(module_name, package.v)

\* The line numbers of the sections a stack gets when a frame without a
\* module is treated as the nearest earlier frame with a module would be,
\* and dropped when there is no such frame
AttributedLinenos(stack, package) ==
    LET kept == SelectSeq([i \in 1..Len(stack) |-> i],
                          LAMBDA i :
                              IF stack[i].module.some
                              THEN PassesFilter(stack[i].module.v, package)
                              ELSE /\ NearestWithModule(stack, i) # 0
                                   /\ PassesFilter(
                                          stack[NearestWithModule(stack, i)].module.v,
                                          package))
    IN  [k \in 1..Len(kept) |-> ToString(stack[kept[k]].lineno)]

ConfiguredAs(package_name, dump_locals, dump_path) ==
    /\ _global_package_name' = Some(package_name)
    /\ _global_dump_locals' = dump_locals
    /\ _global_dump_path' =
           IF dump_path.some THEN Some(PathArg("str", _resolve_path(dump_path.v)))
           ELSE _global_dump_path

\* This step is a call of configure
IsConfigure ==
    \E package_name \in PackagesCfg, verbosity \in VerbositiesCfg,
       dump_locals \in BOOLEAN, dump_path \in PathsCfg :
        Configure(package_name, verbosity, dump_locals, dump_path)

FilesOnlyGrow ==
    /\ Len(fs') >= Len(fs)
    /\ \A i \in 1..Len(fs) :
           /\ fs'[i].name = fs[i].name
           /\ StartsWith(fs'[i].content, fs[i].content)

\* The dump of this step was put at the end of the file at the user's
\* path, after all that file held, and no temporary file was made
AppendedToUserPath ==
    LET path == last'.events[1].path
        text == last'.events[1].text
        before == IF FileIndex(fs, path) = 0 THEN <<>>
                  ELSE fs[FileIndex(fs, path)].content
    IN  /\ FileIndex(fs', path) # 0
        /\ ~fs'[FileIndex(fs', path)].temp
        /\ fs'[FileIndex(fs', path)].content = before \o text
        /\ tmp_count' = tmp_count

\* C21: a dump to a user-provided path is appended: the file keeps every
\* earlier dump in the order written and no step cuts or overwrites a file;
\* an exception passing nested blocks is dumped by each and goes on to the
\* next block out; a dump without a user path goes to a temporary file that
\* did not exist before.
C21_DumpsAppended ==
    [][/\ FilesOnlyGrow
       /\ (LeavesBlock /\ Len(last'.events) = 2)
          => /\ IsWrite(last'.events[1])
             /\ IF Truthy(BlockDumpPath) \/ _global_dump_path.some
                THEN AppendedToUserPath
                ELSE /\ FileIndex(fs, last'.events[1].path) = 0
                     /\ tmp_count' = tmp_count + 1
                     /\ fs' = Append(fs, [name |-> last'.events[1].path,
                                          content |-> last'.events[1].text,
                                          temp |-> TRUE])
             /\ last'.status = "raise"
             /\ last'.exc = exc
             /\ cm_stack' # <<>> => exc' = exc]_vars

\* Two dumps of a ValueError went to the path /a given to the blocks: the
\* file holds the first and then the second, which the last block wrote
C21_Witness ==
    /\ BlockDumped
    /\ last.status = "raise"
    /\ last.caught = Some(ValueError)
    /\ last.exc = last.caught
    /\ last.events[1].path = PathA.v.p
    /\ tmp_count = 0
    /\ \E i \in 1..Len(fs) :
           /\ fs[i].name = PathA.v.p
           /\ ~fs[i].temp
           /\ Len(Places(fs[i].content, "Exception:")) = 2
           /\ EndsWith(fs[i].content, last.events[1].text)
           /\ Len(fs[i].content) > Len(last.events[1].text)
====
